---- MODULE Spec2Model ----
(***************************************************************************)
(* Model of the Minesweeper board engine of src/minesweeper.py:            *)
(* MinesweeperGame with its operations reveal, toggle_flag, is_complete    *)
(* board_as_strings and count_flags, the lazy mine placement and the flood  *)
(* reveal, and of the text layer around it: parse_command and run_game.     *)
(***************************************************************************)
EXTENDS Integers, Sequences, FiniteSets, TLC

\* Bounds of the model: the boards that Init constructs.
MaxRows == 2
MaxCols == 4
MaxCells == 6
MaxMines == 2
\* Bound on the number of flags the player keeps on the board at one time.
MaxFlags == 1
\* Bounds of the boards on which only the opening move is explored.
OpeningMaxRows == 3
OpeningMaxCols == 4
OpeningMaxCells == 12
OpeningFlagCells == 8
\* Bound on the arguments passed to MinesweeperGame(rows, cols, mines).
MaxArg == 3
SessionMaxCells == 4

VARIABLES
    rows,           \* self.rows
    cols,           \* self.cols
    mines,          \* self.mines
    board,          \* self._board : cell -> Cell
    mines_placed,   \* self._mines_placed
    op,             \* the last operation called and its arguments
    ret,            \* what the last operation returned or raised
    count,          \* the integer returned by the last count_flags()
    pops,           \* iterations of the while loop of the last _flood_reveal
    pre_board,      \* self._board when the last operation was called
    pre_placed,     \* self._mines_placed when the last operation was called
    rendered,       \* the grid returned by the last board_as_strings()
    user_input,     \* run_game: the line read by input(), as its tokens
    session,        \* run_game: where the loop stands
    printed         \* run_game: what the last iteration printed after the prompt

vars == <<rows, cols, mines, board, mines_placed, op, ret, count, pops,
          pre_board, pre_placed, rendered, user_input, session, printed>>

\* ------------------------------------------------------------------
\* Data

\* dataclass Cell with its defaults
Cell == [is_mine |-> FALSE, is_revealed |-> FALSE, is_flagged |-> FALSE,
         adjacent_mines |-> 0]

\* the positions of the grid, (r, c) for r in range(rows) for c in range(cols)
Positions == (0 .. rows - 1) \X (0 .. cols - 1)

\* the same positions as the nested loops enumerate them (row-major)
PositionSeq == [i \in 1 .. rows * cols |-> <<(i - 1) \div cols, (i - 1) % cols>>]

\* Python list indexing: a negative index counts from the end
PyIndex(i, n) == IF i < 0 THEN i + n ELSE i

\* self._board[row][col]
At(row, col) == <<PyIndex(row, rows), PyIndex(col, cols)>>

\* ------------------------------------------------------------------
\* Internal helpers

ValidatePositionNoLower(row, col) == row < rows /\ col < cols

\* _validate_position: TRUE when it returns, FALSE when it raises ValueError
ValidatePosition(row, col) == 0 <= row /\ row < rows /\ 0 <= col /\ col < cols

Offsets == << <<-1, -1>>, <<-1, 0>>, <<-1, 1>>, <<0, -1>>, <<0, 1>>,
              <<1, -1>>, <<1, 0>>, <<1, 1>> >>

InGrid(p) == 0 <= p[1] /\ p[1] < rows /\ 0 <= p[2] /\ p[2] < cols

NeighborsOrthogonal(row, col) ==
    SelectSeq([i \in 1 .. 8 |-> <<row + Offsets[i][1], col + Offsets[i][2]>>],
              LAMBDA p : InGrid(p) /\ (p[1] = row \/ p[2] = col))

\* _neighbors: the in-grid positions around (row, col), in generation order
Neighbors(row, col) ==
    SelectSeq([i \in 1 .. 8 |-> <<row + Offsets[i][1], col + Offsets[i][2]>>],
              InGrid)

AvailableAll(exclude) == Positions

\* _place_mines: the list the mines are sampled from
Available(exclude) == {p \in Positions : p # exclude}

\* _compute_adjacent_counts
ComputeAdjacentCounts(b) ==
    [p \in Positions |->
        IF b[p].is_mine
        THEN [b[p] EXCEPT !.adjacent_mines = 0]
        ELSE [b[p] EXCEPT !.adjacent_mines =
                 LET n == Neighbors(p[1], p[2])
                 IN  Cardinality({i \in 1 .. Len(n) : b[n[i]].is_mine})]]

\* _place_mines, with mine_positions the outcome of random.sample
PlaceMines(b, mine_positions) ==
    ComputeAdjacentCounts(
        [p \in Positions |->
            IF p \in mine_positions THEN [b[p] EXCEPT !.is_mine = TRUE] ELSE b[p]])

\* the outcomes of self._random.sample(available, self.mines)
Sample(exclude) ==
    {s \in SUBSET Available(exclude) : Cardinality(s) = mines}

FloodSkipsRevealed(cell) == cell.is_flagged \/ cell.is_mine

FloodSkipsNoFlag(cell) == cell.is_revealed \/ cell.is_mine

\* _flood_reveal: the neighbours the inner loop passes over
FloodSkips(cell) == cell.is_revealed \/ cell.is_flagged \/ cell.is_mine

FloodPushesNever(cell, p, visited) == FALSE

\* _flood_reveal: the neighbours the inner loop puts on the stack
FloodPushes(cell, p, visited) == cell.adjacent_mines = 0 /\ p \notin visited

RECURSIVE FloodNeighborsBreak(_, _, _, _, _, _)
FloodNeighborsBreak(b, stack, visited, marked, n, i) ==
    IF i > Len(n) \/ FloodSkips(b[n[i]])
    THEN [board |-> b, stack |-> stack, visited |-> visited, marked |-> marked]
    ELSE LET b1 == [b EXCEPT ![n[i]].is_revealed = TRUE]
         IN  IF FloodPushes(b[n[i]], n[i], visited)
             THEN FloodNeighborsBreak(b1, Append(stack, n[i]), visited \cup {n[i]},
                                      Append(marked, n[i]), n, i + 1)
             ELSE FloodNeighborsBreak(b1, stack, visited, Append(marked, n[i]),
                                      n, i + 1)

\* _flood_reveal: the for loop over the neighbours n[i..] of the popped cell;
\* marked lists the cells on which line 151 has set is_revealed
RECURSIVE FloodNeighbors(_, _, _, _, _, _)
FloodNeighbors(b, stack, visited, marked, n, i) ==
    IF i > Len(n)
    THEN [board |-> b, stack |-> stack, visited |-> visited, marked |-> marked]
    ELSE IF FloodSkips(b[n[i]])
    THEN FloodNeighbors(b, stack, visited, marked, n, i + 1)
    ELSE LET b1 == [b EXCEPT ![n[i]].is_revealed = TRUE]
         IN  IF FloodPushes(b[n[i]], n[i], visited)
             THEN FloodNeighbors(b1, Append(stack, n[i]), visited \cup {n[i]},
                                 Append(marked, n[i]), n, i + 1)
             ELSE FloodNeighbors(b1, stack, visited, Append(marked, n[i]),
                                 n, i + 1)

\* _flood_reveal: the while loop; popped lists the cells taken from the stack
RECURSIVE FloodLoop(_, _, _, _, _)
FloodLoop(b, stack, visited, marked, popped) ==
    IF stack = <<>>
    THEN [board |-> b, pops |-> Len(popped), popped |-> popped, marked |-> marked]
    ELSE LET current == stack[Len(stack)]
             step == FloodNeighbors(b, SubSeq(stack, 1, Len(stack) - 1), visited,
                                    marked, Neighbors(current[1], current[2]), 1)
         IN  FloodLoop(step.board, step.stack, step.visited, step.marked,
                       Append(popped, current))

\* _flood_reveal
FloodReveal(b, row, col) ==
    FloodLoop(b, << <<row, col>> >>, {<<row, col>>}, <<>>, <<>>)

\* ------------------------------------------------------------------
\* Operations

NeedsPlacementAlways == TRUE

\* reveal: the guard of the lazy mine placement
NeedsPlacement == ~mines_placed

RevealReturnsEarlyNoFlag(cell) == cell.is_revealed

RevealReturnsEarlyNoRevealed(cell) == cell.is_flagged

\* reveal: the cells on which it returns True without doing anything
RevealReturnsEarly(cell) == cell.is_flagged \/ cell.is_revealed

RevealCellMineFloods(b, row, col) ==
    LET p == At(row, col)
        b1 == [b EXCEPT ![p].is_revealed = TRUE]
    IN  IF RevealReturnsEarly(b[p])
        THEN [board |-> b, ret |-> "True", pops |-> 0]
        ELSE IF b[p].adjacent_mines = 0
        THEN LET f == FloodReveal(b1, row, col)
             IN  [board |-> f.board,
                  ret |-> IF b[p].is_mine THEN "False" ELSE "True",
                  pops |-> f.pops]
        ELSE [board |-> b1, ret |-> "True", pops |-> 0]

\* reveal, after the validation and the mine placement
RevealCell(b, row, col) ==
    LET p == At(row, col)
        b1 == [b EXCEPT ![p].is_revealed = TRUE]
    IN  IF RevealReturnsEarly(b[p])
        THEN [board |-> b, ret |-> "True", pops |-> 0]
        ELSE IF b[p].is_mine
        THEN [board |-> b1, ret |-> "False", pops |-> 0]
        ELSE IF b[p].adjacent_mines = 0
        THEN LET f == FloodReveal(b1, row, col)
             IN  [board |-> f.board, ret |-> "True", pops |-> f.pops]
        ELSE [board |-> b1, ret |-> "True", pops |-> 0]

\* reveal(row, col)
Reveal(row, col) ==
    /\ op' = [name |-> "reveal", row |-> row, col |-> col]
    /\ pre_board' = board
    /\ pre_placed' = mines_placed
    /\ count' = 0
    /\ UNCHANGED <<rows, cols, mines>>
    /\ IF ~ValidatePosition(row, col)
       THEN /\ ret' = "ValueError"
            /\ pops' = 0
            /\ UNCHANGED <<board, mines_placed>>
       ELSE \E mine_positions \in
                   IF NeedsPlacement THEN Sample(<<row, col>>) ELSE {{}} :
               LET placed == IF NeedsPlacement
                             THEN PlaceMines(board, mine_positions)
                             ELSE board
                   out == RevealCell(placed, row, col)
               IN  /\ board' = out.board
                   /\ ret' = out.ret
                   /\ pops' = out.pops
                   /\ mines_placed' = TRUE

ToggleFlagOnRevealed(b, row, col) ==
    [b EXCEPT ![At(row, col)].is_flagged = ~@]

\* toggle_flag, after the validation: the board it leaves
ToggleFlagBoard(b, row, col) ==
    IF b[At(row, col)].is_revealed THEN b
    ELSE [b EXCEPT ![At(row, col)].is_flagged = ~@]

ToggleFlagPlaces(row, col) ==
    /\ op' = [name |-> "toggle_flag", row |-> row, col |-> col]
    /\ pre_board' = board
    /\ pre_placed' = mines_placed
    /\ count' = 0
    /\ pops' = 0
    /\ UNCHANGED <<rows, cols, mines>>
    /\ IF ~ValidatePosition(row, col)
       THEN /\ ret' = "ValueError"
            /\ UNCHANGED <<board, mines_placed>>
       ELSE \E mine_positions \in
                   IF NeedsPlacement THEN Sample(<<row, col>>) ELSE {{}} :
               /\ ret' = "None"
               /\ board' = ToggleFlagBoard(
                               IF NeedsPlacement
                               THEN PlaceMines(board, mine_positions)
                               ELSE board, row, col)
               /\ mines_placed' = TRUE

\* toggle_flag(row, col)
ToggleFlag(row, col) ==
    /\ op' = [name |-> "toggle_flag", row |-> row, col |-> col]
    /\ pre_board' = board
    /\ pre_placed' = mines_placed
    /\ count' = 0
    /\ pops' = 0
    /\ UNCHANGED <<rows, cols, mines, mines_placed>>
    /\ IF ~ValidatePosition(row, col)
       THEN /\ ret' = "ValueError"
            /\ UNCHANGED board
       ELSE /\ ret' = "None"
            /\ board' = ToggleFlagBoard(board, row, col)

IsCompleteValueFlagged(b) ==
    \A i \in 1 .. Len(PositionSeq) :
        b[PositionSeq[i]].is_revealed
            \/ (b[PositionSeq[i]].is_mine /\ b[PositionSeq[i]].is_flagged)

\* is_complete: the value it returns on board b
IsCompleteValue(b) ==
    \A i \in 1 .. Len(PositionSeq) :
        b[PositionSeq[i]].is_revealed \/ b[PositionSeq[i]].is_mine

\* is_complete()
IsComplete ==
    /\ op' = [name |-> "is_complete", row |-> 0, col |-> 0]
    /\ pre_board' = board
    /\ pre_placed' = mines_placed
    /\ count' = 0
    /\ pops' = 0
    /\ ret' = IF IsCompleteValue(board) THEN "True" ELSE "False"
    /\ UNCHANGED <<rows, cols, mines, board, mines_placed>>

\* count_flags: the sum over the cells from the i-th on
RECURSIVE CountFlagsValue(_, _)
CountFlagsValue(b, i) ==
    IF i > Len(PositionSeq) THEN 0
    ELSE (IF b[PositionSeq[i]].is_flagged THEN 1 ELSE 0)
             + CountFlagsValue(b, i + 1)

\* count_flags()
CountFlags ==
    /\ op' = [name |-> "count_flags", row |-> 0, col |-> 0]
    /\ pre_board' = board
    /\ pre_placed' = mines_placed
    /\ count' = CountFlagsValue(board, 1)
    /\ pops' = 0
    /\ ret' = "Int"
    /\ UNCHANGED <<rows, cols, mines, board, mines_placed>>

\* str(n) for the clues 1..8
Digit == <<"1", "2", "3", "4", "5", "6", "7", "8">>

SymbolFlagFirst(cell, reveal_all) ==
    IF cell.is_flagged /\ ~cell.is_revealed THEN "F"
    ELSE IF cell.is_mine /\ (cell.is_revealed \/ reveal_all) THEN "*"
    ELSE IF cell.is_revealed \/ (reveal_all /\ ~cell.is_mine)
    THEN (IF cell.adjacent_mines > 0 THEN Digit[cell.adjacent_mines] ELSE " ")
    ELSE "#"

\* board_as_strings: the character appended for one cell
Symbol(cell, reveal_all) ==
    IF cell.is_mine /\ (cell.is_revealed \/ reveal_all) THEN "*"
    ELSE LET visible == cell.is_revealed \/ (reveal_all /\ ~cell.is_mine)
         IN  IF visible
             THEN (IF cell.adjacent_mines > 0 THEN Digit[cell.adjacent_mines]
                   ELSE " ")
             ELSE (IF cell.is_flagged THEN "F" ELSE "#")

\* board_as_strings(reveal_all=reveal_all)
BoardAsStrings(reveal_all) ==
    /\ op' = [name |-> IF reveal_all THEN "board_as_strings(reveal_all=True)"
                       ELSE "board_as_strings(reveal_all=False)",
              row |-> 0, col |-> 0]
    /\ pre_board' = board
    /\ pre_placed' = mines_placed
    /\ count' = 0
    /\ pops' = 0
    /\ ret' = "List"
    /\ rendered' = [p \in Positions |-> Symbol(board[p], reveal_all)]
    /\ UNCHANGED <<rows, cols, mines, board, mines_placed>>

InitErrorOffByOne(r, c, m) ==
    IF r <= 0 \/ c <= 0
    THEN "Rows and columns must both be positive integers."
    ELSE IF m <= 0
    THEN "The number of mines must be a positive integer."
    ELSE IF m > r * c
    THEN "The number of mines must be less than the number of cells."
    ELSE ""

\* __init__: the message of the ValueError it raises, "" when it raises none
InitError(r, c, m) ==
    IF r <= 0 \/ c <= 0
    THEN "Rows and columns must both be positive integers."
    ELSE IF m <= 0
    THEN "The number of mines must be a positive integer."
    ELSE IF m >= r * c
    THEN "The number of mines must be less than the number of cells."
    ELSE ""

\* MinesweeperGame(rows, cols, mines), the call recorded in op; an attribute
\* that is not set yet reads 0 (and the board has no cell)
Create ==
    /\ op.name = "__init__"
    /\ ret = "None"
    /\ LET error == InitError(op.rows, op.cols, op.mines)
       IN  IF error # ""
           THEN /\ ret' = error
                /\ UNCHANGED <<rows, cols, mines, board, pre_board>>
           ELSE /\ ret' = "MinesweeperGame"
                /\ rows' = op.rows
                /\ cols' = op.cols
                /\ mines' = op.mines
                /\ board' = [p \in (0 .. op.rows - 1) \X (0 .. op.cols - 1) |-> Cell]
                /\ pre_board' = board'
    /\ mines_placed' = FALSE
    /\ UNCHANGED <<op, count, pops, pre_placed>>

\* ------------------------------------------------------------------
\* Text layer

\* str.lower() on the tokens the model uses
Lower(t) ==
    CASE t = "Q" -> "q"
      [] t = "EXIT" -> "exit"
      [] t = "Reveal" -> "reveal"
      [] t = "FLAG" -> "flag"
      [] t = "X" -> "x"
      [] OTHER -> t

\* the decimal numerals of 0..9
Numeral == [i \in 0 .. 9 |-> <<"0", "1", "2", "3", "4", "5", "6", "7", "8", "9">>[i + 1]]

\* int(t) raises no ValueError
IsInt(t) == \E i \in DOMAIN Numeral : Numeral[i] = t

\* int(t)
IntOf(t) == CHOOSE i \in DOMAIN Numeral : Numeral[i] = t

\* the result of parse_command: what it returns, or the ValueError it raises
Parsed(action, row, col, error) ==
    [action |-> action, row |-> row, col |-> col, error |-> error]

ParseCommandImplicitReveal(tokens) ==
    IF tokens = <<>>
    THEN Parsed("", 0, 0, "Empty command.")
    ELSE IF Lower(tokens[1]) \in {"q", "quit", "exit"}
    THEN Parsed("quit", 0, 0, "")
    ELSE IF Len(tokens) = 2 /\ IsInt(tokens[1]) /\ IsInt(tokens[2])
    THEN Parsed("r", IntOf(tokens[1]) - 1, IntOf(tokens[2]) - 1, "")
    ELSE IF Lower(tokens[1]) \notin {"r", "reveal", "f", "flag"}
    THEN Parsed("", 0, 0, "Unknown command.")
    ELSE IF Len(tokens) # 3
    THEN Parsed("", 0, 0, "Commands must include row and column numbers.")
    ELSE IF ~(IsInt(tokens[2]) /\ IsInt(tokens[3]))
    THEN Parsed("", 0, 0, "Row and column must be integers.")
    ELSE Parsed(IF Lower(tokens[1]) \in {"r", "reveal"} THEN "r" ELSE "f",
                IntOf(tokens[2]) - 1, IntOf(tokens[3]) - 1, "")

\* parse_command(text), with tokens = text.strip().split()
ParseCommand(tokens) ==
    IF tokens = <<>>
    THEN Parsed("", 0, 0, "Empty command.")
    ELSE IF Lower(tokens[1]) \in {"q", "quit", "exit"}
    THEN Parsed("quit", 0, 0, "")
    ELSE IF Lower(tokens[1]) \notin {"r", "reveal", "f", "flag"}
    THEN Parsed("", 0, 0, "Unknown command.")
    ELSE IF Len(tokens) # 3
    THEN Parsed("", 0, 0, "Commands must include row and column numbers.")
    ELSE IF ~(IsInt(tokens[2]) /\ IsInt(tokens[3]))
    THEN Parsed("", 0, 0, "Row and column must be integers.")
    ELSE Parsed(IF Lower(tokens[1]) \in {"r", "reveal"} THEN "r" ELSE "f",
                IntOf(tokens[2]) - 1, IntOf(tokens[3]) - 1, "")

\* where run_game stands and what it printed
Outcome(s, out) == [session |-> s, printed |-> out]

AfterCallUncaught(action, result, b) ==
    IF action = "r" /\ result = "False"
    THEN Outcome("lost", <<"mine", "board(reveal_all=True)">>)
    ELSE IF result = "ValueError"
    THEN Outcome("raised", <<>>)
    ELSE IF IsCompleteValue(b)
    THEN Outcome("won", <<"congratulations", "board(reveal_all=True)">>)
    ELSE Outcome("running", <<>>)

AfterCallNoLoss(action, result, b) ==
    IF result = "ValueError"
    THEN Outcome("running", <<"invalid", "outside the board">>)
    ELSE IF IsCompleteValue(b)
    THEN Outcome("won", <<"congratulations", "board(reveal_all=True)">>)
    ELSE Outcome("running", <<>>)

\* run_game: what follows the call of reveal or toggle_flag that ended with
\* `result` and left board b
AfterCall(action, result, b) ==
    IF action = "r" /\ result = "False"
    THEN Outcome("lost", <<"mine", "board(reveal_all=True)">>)
    ELSE IF result = "ValueError"
    THEN Outcome("running", <<"invalid", "outside the board">>)
    ELSE IF IsCompleteValue(b)
    THEN Outcome("won", <<"congratulations", "board(reveal_all=True)">>)
    ELSE Outcome("running", <<>>)

\* run_game: no method of the game that changes it or returns a result to
\* the loop was called in this iteration
NoCall ==
    /\ op' = [name |-> "none", row |-> 0, col |-> 0]
    /\ ret' = "None"
    /\ count' = 0
    /\ pops' = 0
    /\ pre_board' = board
    /\ pre_placed' = mines_placed
    /\ UNCHANGED <<rows, cols, mines, board, mines_placed>>

\* run_game: one iteration of the while loop, on the line `tokens`
RunGame(tokens) ==
    /\ session = "running"
    /\ user_input' = tokens
    /\ rendered' = <<>>
    /\ LET command == ParseCommand(tokens)
       IN  IF command.error # ""
           THEN /\ printed' = <<"invalid", command.error>>
                /\ session' = "running"
                /\ NoCall
           ELSE IF command.action = "quit"
           THEN /\ printed' = <<"exited">>
                /\ session' = "quit"
                /\ NoCall
           ELSE /\ IF command.action = "r"
                   THEN Reveal(command.row, command.col)
                   ELSE ToggleFlag(command.row, command.col)
                /\ session' = AfterCall(command.action, ret', board').session
                /\ printed' = AfterCall(command.action, ret', board').printed

\* ------------------------------------------------------------------
\* Specification

\* no board_as_strings() was called and run_game is not running
Direct ==
    /\ rendered' = <<>>
    /\ UNCHANGED <<user_input, session, printed>>

\* MinesweeperGame.__init__ on arguments it accepts: the boards of at most
\* MaxCells cells that are at least as wide as tall
NewGame ==
    /\ rows \in 1 .. MaxRows
    /\ cols \in 1 .. MaxCols
    /\ mines \in 1 .. MaxMines
    /\ rows <= cols
    /\ rows * cols <= MaxCells
    /\ mines < rows * cols
    /\ board = [p \in Positions |-> Cell]
    /\ mines_placed = FALSE
    /\ op = [name |-> "init", row |-> 0, col |-> 0]
    /\ ret = "None"
    /\ count = 0
    /\ pops = 0
    /\ pre_board = board
    /\ pre_placed = FALSE
    /\ rendered = <<>>

\* a new game, used directly
Init ==
    /\ NewGame
    /\ user_input = <<>>
    /\ session = "none"
    /\ printed = <<>>

\* The arguments the player passes: every position of the grid, a position
\* above its first row and a position right of its last column.
Arguments == Positions \cup {<<-1, 0>>, <<0, cols>>}

\* The player sets a flag only while fewer than MaxFlags are on the board.
WithinMaxFlags(p) ==
    IF p \notin Positions THEN TRUE
    ELSE board[p].is_flagged
         \/ Cardinality({q \in Positions : board[q].is_flagged}) < MaxFlags

Next ==
    \/ \E p \in Arguments : Reveal(p[1], p[2]) /\ Direct
    \/ \E p \in Arguments : WithinMaxFlags(p) /\ ToggleFlag(p[1], p[2]) /\ Direct
    \/ IsComplete /\ Direct
    \/ CountFlags /\ Direct
    \/ \E reveal_all \in BOOLEAN :
          BoardAsStrings(reveal_all) /\ UNCHANGED <<user_input, session, printed>>

Spec == Init /\ [][Next]_vars

\* The call MinesweeperGame(rows, cols, mines) with arguments up to MaxArg
\* (and mines up to one more than the cells), before it runs.
InitCreate ==
    /\ \E r \in -1 .. MaxArg, c \in -1 .. MaxArg, m \in -1 .. MaxArg * MaxArg + 1 :
          op = [name |-> "__init__", rows |-> r, cols |-> c, mines |-> m]
    /\ ret = "None"
    /\ rows = 0
    /\ cols = 0
    /\ mines = 0
    /\ board = <<>>
    /\ mines_placed = FALSE
    /\ count = 0
    /\ pops = 0
    /\ pre_board = <<>>
    /\ pre_placed = FALSE
    /\ rendered = <<>>
    /\ user_input = <<>>
    /\ session = "none"
    /\ printed = <<>>

NextCreate == Create /\ Direct

\* MinesweeperGame.__init__ on arguments it accepts: the boards of at most
\* OpeningMaxCells cells that are at least as wide as tall, used directly
InitOpening ==
    /\ rows \in 1 .. OpeningMaxRows
    /\ cols \in 1 .. OpeningMaxCols
    /\ mines \in 1 .. MaxMines
    /\ rows <= cols
    /\ rows * cols <= OpeningMaxCells
    /\ mines < rows * cols
    /\ board = [p \in Positions |-> Cell]
    /\ mines_placed = FALSE
    /\ op = [name |-> "init", row |-> 0, col |-> 0]
    /\ ret = "None"
    /\ count = 0
    /\ pops = 0
    /\ pre_board = board
    /\ pre_placed = FALSE
    /\ rendered = <<>>
    /\ user_input = <<>>
    /\ session = "none"
    /\ printed = <<>>

\* The opening of a game: the player sets and removes flags (on the boards of
\* at most OpeningFlagCells cells), then reveals a first cell, which places
\* the mines.
NextOpening ==
    \/ \E p \in Positions : ~mines_placed /\ Reveal(p[1], p[2]) /\ Direct
    \/ \E p \in Positions :
          /\ ~mines_placed
          /\ rows * cols <= OpeningFlagCells
          /\ WithinMaxFlags(p)
          /\ ToggleFlag(p[1], p[2])
          /\ Direct

SpecOpening == InitOpening /\ [][NextOpening]_vars

\* A game on which only reveal is called
NextRevealOnly == \E p \in Arguments : Reveal(p[1], p[2]) /\ Direct

SpecRevealOnly == Init /\ [][NextRevealOnly]_vars

\* main: run_game is entered with a new game, here of at most
\* SessionMaxCells cells
InitSession ==
    /\ NewGame
    /\ rows * cols <= SessionMaxCells
    /\ user_input = <<>>
    /\ session = "running"
    /\ printed = <<>>

\* The lines the player types: r and f on every cell of the grid (1-based),
\* above the first row and right of the last column, the other spellings of
\* the commands, and lines that are no command.
Lines ==
    {<<a, Numeral[p[1] + 1], Numeral[p[2] + 1]>> : a \in {"r", "f"}, p \in Positions}
        \cup {<<"r", "0", "1">>, <<"f", "1", Numeral[cols + 1]>>}
        \cup {<<"Reveal", "1", "1">>, <<"FLAG", "1", "1">>, <<"Q">>, <<"exit", "1">>}
        \cup {<<>>, <<"X", "1", "1">>, <<"r", "1">>, <<"r", "a", "1">>, <<"1", "1">>}

\* The player sets a flag only while fewer than MaxFlags are on the board.
LineWithinMaxFlags(tokens) ==
    LET command == ParseCommand(tokens)
    IN  (command.error = "" /\ command.action = "f")
            => WithinMaxFlags(<<command.row, command.col>>)

NextSession == \E tokens \in Lines : LineWithinMaxFlags(tokens) /\ RunGame(tokens)

SpecSession == InitSession /\ [][NextSession]_vars

SpecCreate == InitCreate /\ [][NextCreate]_vars

\* ------------------------------------------------------------------
\* Properties

\* the cell the last operation was called on
Target == <<op.row, op.col>>

\* the last operation was `name`, called on a position of the grid
Called(name) == op.name = name /\ Target \in Positions

\* the cells of board b that hold a mine, are opened, are flagged
MineCells(b) == {p \in Positions : b[p].is_mine}
OpenedCells(b) == {p \in Positions : b[p].is_revealed}
FlaggedCells(b) == {p \in Positions : b[p].is_flagged}

\* p and q differ by at most 1 in each axis and are not the same cell
Adjacent(p, q) ==
    /\ p # q
    /\ p[1] - q[1] \in -1 .. 1
    /\ p[2] - q[2] \in -1 .. 1

\* C1: after the first in-bounds reveal(r,c), whatever mines were sampled and
\* whatever flags were toggled before, (r,c) holds no mine and the reveal
\* returned True (not Detonated).
C1_FirstRevealSafe ==
    (Called("reveal") /\ ~pre_placed) =>
        /\ mines_placed
        /\ ~board[Target].is_mine
        /\ ret = "True"

\* C1 witness: a first reveal on a cell flagged beforehand, on a board where
\* every other cell had to take a mine.
C1_Witness ==
    /\ Called("reveal") /\ ~pre_placed /\ mines_placed
    /\ pre_board[Target].is_flagged
    /\ mines = rows * cols - 1
    /\ MineCells(board) = Positions \ {Target}

\* C2 as stated: toggle_flag on a board whose mines are not placed places
\* them, excluding its target.
C2_FlagTriggersPlacement ==
    (Called("toggle_flag") /\ ~pre_placed) =>
        /\ mines_placed
        /\ Cardinality(MineCells(board)) = mines
        /\ ~board[Target].is_mine

\* C2 amended: toggle_flag never places mines (it leaves mines_placed, the
\* mines and the clues as they were); mines_placed becomes true only in an
\* in-bounds reveal, and the mines placed exclude that reveal's target.
C2_PlacementOnlyByReveal ==
    /\ op.name = "toggle_flag" =>
        /\ mines_placed = pre_placed
        /\ \A p \in Positions :
              /\ board[p].is_mine = pre_board[p].is_mine
              /\ board[p].adjacent_mines = pre_board[p].adjacent_mines
    /\ (Called("toggle_flag") /\ ~pre_placed) => MineCells(board) = {}
    /\ (mines_placed /\ ~pre_placed) =>
        /\ Called("reveal")
        /\ ~board[Target].is_mine

\* C2 witness: a flag was set as the first action and the mines are still not
\* placed.
C2_Witness ==
    /\ Called("toggle_flag") /\ ~pre_placed /\ ~mines_placed
    /\ board[Target].is_flagged
    /\ FlaggedCells(pre_board) = {}

\* C3: once mines_placed, exactly `mines` cells hold a mine and every non-mine
\* cell's adjacent_mines is the number of mines among the cells around it,
\* which lies in 0..8.
C3_MinesAndClues ==
    mines_placed =>
        /\ Cardinality(MineCells(board)) = mines
        /\ \A p \in Positions \ MineCells(board) :
              /\ board[p].adjacent_mines =
                     Cardinality({q \in MineCells(board) : Adjacent(p, q)})
              /\ board[p].adjacent_mines \in 0 .. 8

\* C3 witness: mines are placed and some cell has two mines around it, one of
\* them diagonally.
C3_Witness ==
    /\ mines_placed
    /\ \E p \in Positions \ MineCells(board) :
          /\ board[p].adjacent_mines = 2
          /\ \E q \in MineCells(board) : q[1] # p[1] /\ q[2] # p[2] /\ Adjacent(p, q)

\* the cells the last operation opened
NewlyOpened == OpenedCells(board) \ OpenedCells(pre_board)

\* the cells a flood may open: unopened and unflagged when reveal was called,
\* and without a mine
Floodable == {p \in Positions : /\ ~pre_board[p].is_revealed
                                /\ ~pre_board[p].is_flagged
                                /\ ~board[p].is_mine}

\* the least set that contains S and every floodable cell around a zero-clue
\* cell of the set
RECURSIVE FloodClosure(_)
FloodClosure(S) ==
    LET grown == S \cup {p \in Floodable :
                            \E z \in S : /\ board[z].adjacent_mines = 0
                                         /\ Adjacent(z, p)}
    IN  IF grown = S THEN S ELSE FloodClosure(grown)

\* the last operation was a reveal of an unopened, unflagged cell that holds no
\* mine and whose clue is 0
RevealedZeroCell ==
    /\ Called("reveal")
    /\ ~pre_board[Target].is_revealed
    /\ ~pre_board[Target].is_flagged
    /\ ~board[Target].is_mine
    /\ board[Target].adjacent_mines = 0

\* C4: a reveal of an unopened, unflagged, non-mine zero-clue cell opens
\* exactly the least fixed point of the flood rule from the target: every
\* cell around a zero-clue cell it opened is opened unless it is flagged, and
\* it opens no mine and no flagged cell.
C4_FloodOpensLeastFixedPoint ==
    RevealedZeroCell =>
        /\ NewlyOpened = FloodClosure({Target})
        /\ \A z \in NewlyOpened :
              board[z].adjacent_mines = 0 =>
                  \A p \in Positions :
                      Adjacent(z, p) => board[p].is_revealed \/ board[p].is_flagged
        /\ \A p \in NewlyOpened : ~board[p].is_mine /\ ~board[p].is_flagged
        /\ FlaggedCells(board) = FlaggedCells(pre_board)

\* C4 witness: the flood went on from a second zero-clue cell, opened a
\* numbered cell next to a mine, and left a flagged cell without a mine
\* closed although it is around an opened zero-clue cell.
C4_Witness ==
    /\ RevealedZeroCell
    /\ pops >= 2
    /\ \E p \in NewlyOpened : board[p].adjacent_mines > 0
    /\ \E z \in NewlyOpened, f \in FlaggedCells(board) :
          /\ board[z].adjacent_mines = 0
          /\ Adjacent(z, f)
          /\ ~board[f].is_mine
          /\ ~board[f].is_revealed

\* C5: is_complete() returns True exactly when every cell without a mine is
\* opened, whatever cells are flagged, and changes nothing.
C5_CompleteIffNonMinesOpened ==
    op.name = "is_complete" =>
        /\ ret \in {"True", "False"}
        /\ ret = "True" <=> (Positions \ MineCells(board)) \subseteq OpenedCells(board)
        /\ board = pre_board
        /\ mines_placed = pre_placed

\* C5 witness: is_complete() returned True on a board with an unopened mine
\* and no flag at all.
C5_Witness ==
    /\ op.name = "is_complete"
    /\ ret = "True"
    /\ FlaggedCells(board) = {}
    /\ MineCells(board) \ OpenedCells(board) # {}

\* C6: reveal of a flagged cell returns True even when the cell holds a mine,
\* opens nothing, changes no flag and starts no flood.
C6_RevealFlaggedIsNoOp ==
    (Called("reveal") /\ pre_board[Target].is_flagged) =>
        /\ ret = "True"
        /\ OpenedCells(board) = OpenedCells(pre_board)
        /\ FlaggedCells(board) = FlaggedCells(pre_board)
        /\ ~board[Target].is_revealed
        /\ pops = 0

\* C6 witness: a flagged cell that holds a mine was revealed.
C6_Witness ==
    /\ Called("reveal")
    /\ pre_board[Target].is_flagged
    /\ pre_board[Target].is_mine
    /\ pre_placed

\* C7: a reveal that follows a reveal of the same cell changes neither the
\* board nor mines_placed and runs no flood; more generally a reveal of an
\* already opened cell changes nothing and runs no flood.
C7_RevealIdempotent ==
    /\ [][(Called("reveal") /\ op' = op) =>
              /\ board' = board
              /\ mines_placed' = mines_placed
              /\ pops' = 0]_vars
    /\ []((Called("reveal") /\ pre_board[Target].is_revealed) =>
              /\ board = pre_board
              /\ mines_placed = pre_placed
              /\ pops = 0)

\* C7 witness: an opened zero-clue cell, with a closed unflagged cell around
\* it that a second flood would open, was revealed again.
C7_Witness ==
    /\ Called("reveal")
    /\ pre_board[Target].is_revealed
    /\ ~board[Target].is_mine
    /\ board[Target].adjacent_mines = 0
    /\ \E p \in Positions :
          Adjacent(Target, p) /\ ~board[p].is_revealed /\ ~board[p].is_flagged

\* C8: toggle_flag on an opened cell changes nothing; on an unopened cell it
\* inverts that cell's flag and nothing else; so the number of flags moves by
\* at most 1, a second toggle_flag of the same cell restores the board, and
\* count_flags() returns the number of flagged cells.
C8_ToggleFlagFrame ==
    /\ [](Called("toggle_flag") =>
              /\ ret = "None"
              /\ board = IF pre_board[Target].is_revealed THEN pre_board
                         ELSE [pre_board EXCEPT ![Target].is_flagged = ~@]
              /\ OpenedCells(board) = OpenedCells(pre_board)
              /\ Cardinality(FlaggedCells(board))
                     - Cardinality(FlaggedCells(pre_board)) \in {-1, 0, 1})
    /\ [](op.name = "count_flags" =>
              /\ count = Cardinality(FlaggedCells(board))
              /\ board = pre_board)
    /\ [][(Called("toggle_flag") /\ op' = op) => board' = pre_board]_vars

\* C8 witness: a flag was removed by a toggle_flag that followed the
\* toggle_flag that had set it.
C8_Witness ==
    /\ Called("toggle_flag")
    /\ pre_board[Target].is_flagged
    /\ ~board[Target].is_flagged
    /\ OpenedCells(board) # {}

\* C9: reveal and toggle_flag raise ValueError exactly on the positions
\* outside the grid, negative ones included, and then change neither the
\* board nor mines_placed.
C9_OutOfBoundsRejected ==
    op.name \in {"reveal", "toggle_flag"} =>
        IF Target \in Positions
        THEN ret # "ValueError"
        ELSE /\ ret = "ValueError"
             /\ board = pre_board
             /\ mines_placed = pre_placed

\* C9 witness: a reveal with a negative row was rejected before the mines
\* were placed, on a board where a flag was already set.
C9_Witness ==
    /\ op.name = "reveal"
    /\ op.row < 0
    /\ ret = "ValueError"
    /\ ~mines_placed
    /\ FlaggedCells(board) # {}

\* C10: an in-bounds reveal returns False (Detonated) exactly when its target
\* was unopened, unflagged and held a mine when it was called, and then it
\* opens that cell and changes nothing else; otherwise it returns True.
C10_DetonatedIffHiddenMine ==
    Called("reveal") =>
        /\ ret \in {"True", "False"}
        /\ ret = "False" <=> /\ ~pre_board[Target].is_revealed
                             /\ ~pre_board[Target].is_flagged
                             /\ pre_board[Target].is_mine
        /\ ret = "False" =>
              /\ board = [pre_board EXCEPT ![Target].is_revealed = TRUE]
              /\ mines_placed = pre_placed
              /\ pops = 0

\* C10 witness: a reveal detonated a mine that has a closed cell without a
\* mine around it.
C10_Witness ==
    /\ Called("reveal")
    /\ ret = "False"
    /\ NewlyOpened = {Target}
    /\ \E p \in Positions :
          Adjacent(Target, p) /\ ~board[p].is_mine /\ ~board[p].is_revealed

\* the arguments of a MinesweeperGame(rows, cols, mines) call are valid
ValidArgs == op.rows > 0 /\ op.cols > 0 /\ 1 <= op.mines /\ op.mines < op.rows * op.cols

\* C11: MinesweeperGame(rows, cols, mines) succeeds exactly when rows > 0,
\* cols > 0 and 1 <= mines < rows*cols, and then leaves a rows x cols board of
\* unopened, unflagged, mine-free cells with _mines_placed false; otherwise
\* it raises the rows/columns error when rows <= 0 or cols <= 0 and one of
\* the two mine-count errors in every other case.
C11_CreateValidates ==
    (op.name = "__init__" /\ ret # "None") =>
        /\ ret = "MinesweeperGame" <=> ValidArgs
        /\ ret = "MinesweeperGame" =>
              /\ rows = op.rows /\ cols = op.cols /\ mines = op.mines
              /\ DOMAIN board = (0 .. op.rows - 1) \X (0 .. op.cols - 1)
              /\ \A p \in DOMAIN board :
                    /\ ~board[p].is_revealed
                    /\ ~board[p].is_flagged
                    /\ ~board[p].is_mine
              /\ ~mines_placed
        /\ ret = "Rows and columns must both be positive integers."
              <=> (op.rows <= 0 \/ op.cols <= 0)
        /\ ret \in {"The number of mines must be a positive integer.",
                    "The number of mines must be less than the number of cells."}
              <=> (op.rows > 0 /\ op.cols > 0 /\ ~ValidArgs)

\* C11 witness: MinesweeperGame(1, 1, 1) raised the mine-count error.
C11_Witness ==
    /\ op = [name |-> "__init__", rows |-> 1, cols |-> 1, mines |-> 1]
    /\ ret = "The number of mines must be less than the number of cells."
    /\ board = <<>>

\* the last operation was board_as_strings(reveal_all=...)
Rendered(reveal_all) ==
    op.name = IF reveal_all THEN "board_as_strings(reveal_all=True)"
              ELSE "board_as_strings(reveal_all=False)"

\* the clue symbol of a cell: its digit, or a blank for 0
Clue(cell) == IF cell.adjacent_mines > 0 THEN Digit[cell.adjacent_mines] ELSE " "

\* C14: board_as_strings changes nothing and shows, for every cell, the mine
\* symbol on a mine that is opened or revealed by reveal_all, flagged or not;
\* the clue on a cell without a mine that is opened or revealed by reveal_all,
\* flagged or not; and otherwise the flag symbol or the hidden symbol. Without
\* reveal_all two unopened cells with the same flag state look the same,
\* mine or not.
C14_RenderSymbols ==
    \A reveal_all \in BOOLEAN :
        Rendered(reveal_all) =>
            /\ board = pre_board
            /\ mines_placed = pre_placed
            /\ DOMAIN rendered = Positions
            /\ \A p \in Positions :
                  /\ (board[p].is_mine /\ (board[p].is_revealed \/ reveal_all))
                        => rendered[p] = "*"
                  /\ (~board[p].is_mine /\ (board[p].is_revealed \/ reveal_all))
                        => rendered[p] = Clue(board[p])
                  /\ (~board[p].is_revealed /\ ~reveal_all)
                        => rendered[p] = IF board[p].is_flagged THEN "F" ELSE "#"
            /\ ~reveal_all =>
                  \A p, q \in Positions :
                      (/\ ~board[p].is_revealed
                       /\ ~board[q].is_revealed
                       /\ board[p].is_flagged = board[q].is_flagged)
                          => rendered[p] = rendered[q]

\* C14 witness: board_as_strings(reveal_all=True) showed a flagged mine as a
\* mine and a closed cell with a clue as its digit, on a board with an
\* opened cell.
C14_Witness ==
    /\ Rendered(TRUE)
    /\ \E p \in Positions :
          board[p].is_mine /\ board[p].is_flagged /\ rendered[p] = "*"
    /\ \E p \in Positions :
          ~board[p].is_mine /\ ~board[p].is_revealed /\ rendered[p] \in {"1", "2"}
    /\ \E p \in Positions : board[p].is_revealed

\* the line read last is a quit command: its first word is q, quit or exit
QuitLine == user_input # <<>> /\ Lower(user_input[1]) \in {"q", "quit", "exit"}

\* the line read last is `r|reveal|f|flag <row> <col>` with integer row, col
CellLine ==
    /\ Len(user_input) = 3
    /\ Lower(user_input[1]) \in {"r", "reveal", "f", "flag"}
    /\ IsInt(user_input[2])
    /\ IsInt(user_input[3])

\* the 0-based cell a cell line names
LineCell == <<IntOf(user_input[2]) - 1, IntOf(user_input[3]) - 1>>

\* run_game stopped
Ended == session # "running"

\* C12: run_game stops only on a quit command (the board is not shown with
\* reveal_all and is unchanged), on a reveal that returned False (loss), or
\* with is_complete() true after a call that was not rejected (win). A line
\* that is no command, and a command on a cell outside the grid, print an
\* error, leave the board as it was and leave the loop running.
C12_SessionEndsOnlyOnQuitLossWin ==
    /\ session \in {"running", "quit", "lost", "won"}
    /\ session = "quit" <=> QuitLine
    /\ session = "quit" =>
          /\ printed = <<"exited">>
          /\ board = pre_board
    /\ session = "lost" <=> (CellLine /\ op.name = "reveal" /\ ret = "False")
    /\ session = "won" <=>
          /\ CellLine
          /\ LineCell \in Positions
          /\ ~(op.name = "reveal" /\ ret = "False")
          /\ (Positions \ MineCells(board)) \subseteq OpenedCells(board)
    /\ ((user_input # <<>> \/ printed # <<>>) /\ ~QuitLine /\ ~CellLine) =>
          /\ ~Ended
          /\ printed[1] = "invalid"
          /\ board = pre_board
          /\ mines_placed = pre_placed
    /\ (CellLine /\ LineCell \notin Positions) =>
          /\ ~Ended
          /\ printed[1] = "invalid"
          /\ board = pre_board
          /\ mines_placed = pre_placed

\* C12 witness: a command on a cell outside the grid was rejected in the
\* middle of a game (a cell is opened, a flag is set) and the loop goes on.
C12_Witness ==
    /\ CellLine
    /\ LineCell \notin Positions
    /\ session = "running"
    /\ printed = <<"invalid", "outside the board">>
    /\ OpenedCells(board) # {}
    /\ FlaggedCells(board) # {}

\* the line read last is two integers and nothing else
BareCoordinates ==
    Len(user_input) = 2 /\ IsInt(user_input[1]) /\ IsInt(user_input[2])

\* C13 as stated: a line of two integers is taken as a reveal of that cell.
C13_BareCoordinatesReveal ==
    BareCoordinates =>
        /\ op = [name |-> "reveal", row |-> IntOf(user_input[1]) - 1,
                 col |-> IntOf(user_input[2]) - 1]
        /\ printed = <<>> \/ printed[1] # "invalid"

\* C13 amended: a line of two integers is rejected by parse_command as an
\* unknown command: no cell is revealed, the board is unchanged and the loop
\* goes on; a reveal needs the word r or reveal before the two integers.
C13_BareCoordinatesRejected ==
    /\ BareCoordinates =>
          /\ printed = <<"invalid", "Unknown command.">>
          /\ op.name = "none"
          /\ board = pre_board
          /\ mines_placed = pre_placed
          /\ session = "running"
    /\ (session = "running" /\ op.name = "reveal") =>
          /\ CellLine
          /\ Lower(user_input[1]) \in {"r", "reveal"}
          /\ Target = LineCell

\* C13 witness: the line `1 1` was rejected while cell (0,0) was still closed
\* on a board with placed mines.
C13_Witness ==
    /\ user_input = <<"1", "1">>
    /\ printed = <<"invalid", "Unknown command.">>
    /\ mines_placed
    /\ ~board[<<0, 0>>].is_revealed
    /\ ~board[<<0, 0>>].is_flagged

\* C20: while run_game goes on no mine is opened; it announces a win only
\* with every cell without a mine opened and no mine opened; the reveal that
\* opens a mine ends it as a loss, whatever is_complete() would say; so a win
\* and a loss exclude each other and at most one mine is ever opened.
C20_WinLossExclusive ==
    /\ session = "running" => MineCells(board) \cap OpenedCells(board) = {}
    /\ session = "won" =>
          /\ (Positions \ MineCells(board)) \subseteq OpenedCells(board)
          /\ MineCells(board) \cap OpenedCells(board) = {}
          /\ printed = <<"congratulations", "board(reveal_all=True)">>
    /\ (op.name = "reveal" /\ ret = "False") <=> session = "lost"
    /\ session = "lost" =>
          /\ MineCells(board) \cap OpenedCells(board) = {Target}
          /\ printed = <<"mine", "board(reveal_all=True)">>
    /\ Cardinality(MineCells(board) \cap OpenedCells(board)) <= 1

\* C20 witness: the game was lost on the last closed cell but one: the mine
\* was opened when a single cell without a mine was still closed.
C20_Witness ==
    /\ session = "lost"
    /\ Cardinality(Positions \ OpenedCells(board)) = 1
    /\ Cardinality(MineCells(board)) = 1
    /\ FlaggedCells(board) = {}

\* the board on which the flood of the last reveal started: the board as it
\* was, with the mines as placed and the target opened
FloodStart ==
    [p \in Positions |->
        [board[p] EXCEPT !.is_revealed = pre_board[p].is_revealed \/ p = Target]]

\* the run of _flood_reveal in the last reveal
FloodRun == FloodReveal(FloodStart, Target[1], Target[2])

\* no element occurs twice in sequence s
NoRepeat(s) == \A i, j \in 1 .. Len(s) : s[i] = s[j] => i = j

\* C15: the flood of a reveal ends after at most rows*cols iterations of its
\* loop: no cell is taken from the stack twice, so none was put on it twice,
\* and no cell is marked opened twice, nor the target again.
C15_FloodVisitsOnce ==
    /\ pops <= rows * cols
    /\ RevealedZeroCell =>
          /\ FloodRun.board = board
          /\ FloodRun.pops = pops
          /\ pops >= 1
          /\ FloodRun.popped[1] = Target
          /\ NoRepeat(FloodRun.popped)
          /\ NoRepeat(FloodRun.marked)
          /\ \A i \in 1 .. Len(FloodRun.marked) :
                /\ FloodRun.marked[i] # Target
                /\ ~pre_board[FloodRun.marked[i]].is_revealed
          /\ \A i \in 1 .. Len(FloodRun.popped) :
                board[FloodRun.popped[i]].adjacent_mines = 0
    /\ ~RevealedZeroCell => pops = 0

\* C15 witness: a flood on a board with cells opened before and a flag set
\* took two cells from its stack and marked two cells or more.
C15_Witness ==
    /\ RevealedZeroCell
    /\ pops >= 2
    /\ Len(FloodRun.marked) >= 2
    /\ OpenedCells(pre_board) # {}
    /\ FlaggedCells(board) # {}

\* the sets of opened cells that the flood loop can end with when it takes
\* the entries from its worklist in any order: the last (the stack of the
\* code), the first (a queue) or any other
RECURSIVE FloodAnyOrder(_, _, _)
FloodAnyOrder(b, worklist, visited) ==
    IF worklist = <<>> THEN {OpenedCells(b)}
    ELSE UNION {
            LET current == worklist[i]
                rest == SubSeq(worklist, 1, i - 1)
                            \o SubSeq(worklist, i + 1, Len(worklist))
                step == FloodNeighbors(b, rest, visited, <<>>,
                                       Neighbors(current[1], current[2]), 1)
            IN  FloodAnyOrder(step.board, step.stack, step.visited)
            : i \in 1 .. Len(worklist)}

\* C16: whatever the order in which the flood takes the entries from its
\* worklist, it ends with the opened cells that the stack order of the code
\* gave.
C16_FloodOrderIndependent ==
    RevealedZeroCell =>
        FloodAnyOrder(FloodStart, <<Target>>, {Target}) = {OpenedCells(board)}

\* the flood of the last reveal had two entries or more on its stack when it
\* took its second entry: the target put two zero-clue cells on it
TwoOnStack ==
    /\ RevealedZeroCell
    /\ Cardinality({p \in Floodable : /\ Adjacent(Target, p)
                                      /\ board[p].adjacent_mines = 0}) >= 2

\* C16 witness: the worklist held several entries at once, on a board with
\* two rows, a flag and a numbered border.
C16_Witness ==
    /\ TwoOnStack
    /\ pops >= 3
    /\ rows >= 2
    /\ FlaggedCells(board) # {}
    /\ \E p \in NewlyOpened : board[p].adjacent_mines > 0

\* C17: over any sequence of reveal and toggle_flag calls no cell is both
\* flagged and opened; a cell that was opened before a call is opened and
\* unflagged after it; and no call, a flood started elsewhere included, opens
\* a cell that was flagged before it.
C17_CellStateMachine ==
    \A p \in Positions :
        /\ ~(board[p].is_flagged /\ board[p].is_revealed)
        /\ pre_board[p].is_revealed =>
              board[p].is_revealed /\ ~board[p].is_flagged
        /\ pre_board[p].is_flagged => ~board[p].is_revealed

\* C17 witness: a flood went past a flagged cell around a zero-clue cell it
\* opened, on a board where another cell was opened before.
C17_Witness ==
    /\ RevealedZeroCell
    /\ OpenedCells(pre_board) # {}
    /\ \E z \in NewlyOpened, f \in FlaggedCells(pre_board) :
          /\ board[z].adjacent_mines = 0
          /\ Adjacent(z, f)
          /\ board[f].is_flagged

\* C18: once mines_placed is True it stays True, and no reveal, toggle_flag,
\* is_complete, count_flags or board_as_strings call made after that changes
\* the is_mine or the adjacent_mines of any cell.
C18_MinesPlacedOnce ==
    pre_placed =>
        /\ mines_placed
        /\ \A p \in Positions :
              /\ board[p].is_mine = pre_board[p].is_mine
              /\ board[p].adjacent_mines = pre_board[p].adjacent_mines

\* C18 witness: a reveal on a board whose mines were placed by an earlier
\* reveal, which opened cells by a flood.
C18_Witness ==
    /\ Called("reveal")
    /\ pre_placed
    /\ pops >= 1
    /\ Cardinality(NewlyOpened) >= 2

\* C19: in every state reached by reveal calls alone, every cell of the grid
\* around an opened cell that holds no mine and whose clue is 0 is opened.
C19_OpenedRegionClosed ==
    \A z \in OpenedCells(board) :
        (~board[z].is_mine /\ board[z].adjacent_mines = 0) =>
            \A p \in Positions : Adjacent(z, p) => board[p].is_revealed

\* C19 witness: a flood over two zero-clue cells or more that left a cell
\* without a mine closed, on a board that never had a flag.
C19_Witness ==
    /\ RevealedZeroCell
    /\ pops >= 2
    /\ FlaggedCells(board) = {}
    /\ \E p \in Positions : ~board[p].is_mine /\ ~board[p].is_revealed

====
